---- MODULE Spec2Model ----
(***************************************************************************)
(* Model of the Math library (Mat3, Mat4, Vec3, Vec4): fixed-size matrices *)
(* and vectors of floats.                                                  *)
(*                                                                         *)
(* A float is modelled as a pair <<num, den>>:                             *)
(*   den > 0  : the rational num/den in lowest terms (no rounding),        *)
(*   <<1,0>>  : +infinity, <<-1,0>> : -infinity, <<0,0>> : NaN.            *)
(* The IEEE-754 rules for the special values are kept (x/0, inf*0,         *)
(* inf-inf, NaN != NaN); rounding and the sign of zero are not modelled.   *)
(***************************************************************************)
EXTENDS Integers, Sequences, FiniteSets, TLC

\* n     : the dimension of the classes in use (3: Mat3 and Vec3, 4: Mat4 and Vec4)
\* mat   : the caller's matrices, by name; "r" receives the operators' results
\* vec   : the caller's vectors, by name
\* orig  : the matrices and vectors as they were after the last set()
\* ops   : the operations applied since then, oldest first
\* nsets : the number of set() calls made
VARIABLES n, mat, vec, orig, ops, nsets

vars == <<n, mat, vec, orig, ops, nsets>>

(* ------------------------------ bounds -------------------------------- *)

\* number of set() calls a run makes on its matrices / vectors
MaxSets == 2
\* number of operations applied after the last set()
MaxOps == 2
\* the values a caller passes to set()
Vals == {-1, 0, 2}

(* ------------------------------ floats -------------------------------- *)

Abs(x) == IF x < 0 THEN -x ELSE x

Sign(x) == IF x < 0 THEN -1 ELSE IF x > 0 THEN 1 ELSE 0

RECURSIVE Gcd(_, _)
Gcd(x, y) == IF y = 0 THEN x ELSE Gcd(y, x % y)

\* the float with value num/den, den >= 0
Norm(num, den) ==
    IF den = 0 THEN <<Sign(num), 0>>
    ELSE LET g == Gcd(Abs(num), den)
         IN  <<Sign(num) * (Abs(num) \div g), den \div g>>

F(k) == <<k, 1>>

NaN == <<0, 0>>
PInf == <<1, 0>>
NInf == <<-1, 0>>

IsFinite(x) == x[2] # 0

FNeg(x) == <<-x[1], x[2]>>

FAdd(x, y) ==
    IF x[2] = 0 /\ y[2] = 0 THEN (IF x = y THEN x ELSE NaN)
    ELSE IF x[2] = 0 THEN x
    ELSE IF y[2] = 0 THEN y
    ELSE Norm(x[1] * y[2] + y[1] * x[2], x[2] * y[2])

FSub(x, y) == FAdd(x, FNeg(y))

FMul(x, y) == Norm(x[1] * y[1], x[2] * y[2])

\* division giving zero for a zero divisor
FDiv_ZeroByZeroDivisor(x, y) ==
    IF y = F(0) THEN F(0)
    ELSE LET s   == IF y[1] < 0 THEN -1 ELSE 1
             num == s * x[1] * y[2]
             den == s * x[2] * y[1]
         IN  Norm(num, den)

FDiv(x, y) ==
    LET s   == IF y[1] < 0 THEN -1 ELSE 1
        num == s * x[1] * y[2]
        den == s * x[2] * y[1]
    IN  Norm(num, den)

\* operator == of two floats: NaN compares unequal to everything
FEq(x, y) == x = y /\ x # NaN

\* operator != of two floats
FNe(x, y) == ~FEq(x, y)

(* --------------------------- loop idioms ------------------------------ *)

\* No loop of the library runs more than four times (the dimension of Mat4),
\* so a loop is written out as its first four iterations.

\* y, with x (a function or a record) evaluated first: the iterations are
\* evaluated in program order
Then(x, y) == IF DOMAIN x = DOMAIN x THEN y ELSE y

\* for (k = lo; k < hi; k++) s = Body(s, k), started from s0
For(lo, hi, Body(_, _), s0) ==
    LET s1 == IF lo     < hi THEN Body(s0, lo)     ELSE s0
        s2 == IF lo + 1 < hi THEN Body(s1, lo + 1) ELSE s1
        s3 == IF lo + 2 < hi THEN Body(s2, lo + 2) ELSE s2
        s4 == IF lo + 3 < hi THEN Body(s3, lo + 3) ELSE s3
    IN  Then(s0, Then(s1, Then(s2, Then(s3, s4))))

\* for (k = hi; k > lo; k--) s = Body(s, k), started from s0
ForDown(hi, lo, Body(_, _), s0) ==
    LET s1 == IF hi     > lo THEN Body(s0, hi)     ELSE s0
        s2 == IF hi - 1 > lo THEN Body(s1, hi - 1) ELSE s1
        s3 == IF hi - 2 > lo THEN Body(s2, hi - 2) ELSE s2
        s4 == IF hi - 3 > lo THEN Body(s3, hi - 3) ELSE s3
    IN  Then(s0, Then(s1, Then(s2, Then(s3, s4))))

(* ------------------------------ vectors ------------------------------- *)

Idx(d) == 0..(d - 1)

\* Vec3() is (0,0,0)
Vec3New == [i \in Idx(3) |-> F(0)]

\* Vec4() with every component zero
Vec4New_AllZero == [i \in Idx(4) |-> F(0)]

\* Vec4() is (0,0,0,1)
Vec4New == [i \in Idx(4) |-> IF i = 3 THEN F(1) ELSE F(0)]

VecNew(d) == IF d = 3 THEN Vec3New ELSE Vec4New

\* Vec3(x, y, z) / Vec4(x, y, z, w) from a tuple of components
VecOf(t) == [i \in Idx(Len(t)) |-> t[i + 1]]

\* get(index) returning zero outside the components
VGet_ZeroOutside(v, i) == IF i \in DOMAIN v THEN v[i] ELSE F(0)

\* get(index) of the header classes: NaN outside the components
VGet(v, i) == IF i \in DOMAIN v THEN v[i] ELSE NaN

\* set(index, value) of the header classes: nothing outside the components
VSet(v, i, x) == IF i \in DOMAIN v THEN [v EXCEPT ![i] = x] ELSE v

(* ------------------------------ matrices ------------------------------ *)

\* Mat3(): zero fill, then the three diagonal elements
Mat3New ==
    LET z == [i \in Idx(3) |-> [j \in Idx(3) |-> F(0)]]
    IN  [z EXCEPT ![0][0] = F(1), ![1][1] = F(1), ![2][2] = F(1)]

\* Mat4() with the last diagonal element left at zero
Mat4New_ThreeOnes ==
    LET z == [i \in Idx(4) |-> [j \in Idx(4) |-> F(0)]]
    IN  [z EXCEPT ![0][0] = F(1), ![1][1] = F(1), ![2][2] = F(1)]

\* Mat4(): zero fill, then the four diagonal elements
Mat4New ==
    LET z == [i \in Idx(4) |-> [j \in Idx(4) |-> F(0)]]
    IN  [z EXCEPT ![0][0] = F(1), ![1][1] = F(1), ![2][2] = F(1), ![3][3] = F(1)]

MatNew(d) == IF d = 3 THEN Mat3New ELSE Mat4New

Dim(A) == Cardinality(DOMAIN A)

\* get(row, column); the assertion holds for the indices used here
MGet(A, i, j) == A[i][j]

\* set(row, column, value)
MSet(A, i, j, x) == [A EXCEPT ![i][j] = x]

\* The loops of Mat3::operator *(const Mat3&), run on the local matrix result
Mat3MulInto(A, B, result) ==
    For(0, 3, LAMBDA R, i:
        For(0, 3, LAMBDA Q, j:
            MSet(Q, i, j, FAdd(FAdd(FMul(A[i][0], MGet(B, 0, j)),
                                    FMul(A[i][1], MGet(B, 1, j))),
                               FMul(A[i][2], MGet(B, 2, j)))), R), result)

\* the product with the last factor read at (j, 2) instead of (2, j)
Mat3Mul_IndexSlip(A, B) ==
    For(0, 3, LAMBDA R, i:
        For(0, 3, LAMBDA Q, j:
            MSet(Q, i, j, FAdd(FAdd(FMul(A[i][0], MGet(B, 0, j)),
                                    FMul(A[i][1], MGet(B, 1, j))),
                               FMul(A[i][2], MGet(B, j, 2)))), R), Mat3New)

\* Mat3::operator *(const Mat3&): result is declared as a default matrix
Mat3Mul(A, B) == Mat3MulInto(A, B, Mat3New)

\* The loops of Mat4::operator *(const Mat4&), run on the local matrix result
Mat4MulInto(A, B, result) ==
    For(0, 4, LAMBDA R, i:
        For(0, 4, LAMBDA Q, j:
            MSet(Q, i, j, FAdd(FAdd(FAdd(FMul(A[i][0], MGet(B, 0, j)),
                                         FMul(A[i][1], MGet(B, 1, j))),
                                    FMul(A[i][2], MGet(B, 2, j))),
                               FMul(A[i][3], MGet(B, 3, j)))), R), result)

\* the product with the fourth term reading row 2 of the multiplier again
Mat4Mul_RowSlip(A, B) ==
    For(0, 4, LAMBDA R, i:
        For(0, 4, LAMBDA Q, j:
            MSet(Q, i, j, FAdd(FAdd(FAdd(FMul(A[i][0], MGet(B, 0, j)),
                                         FMul(A[i][1], MGet(B, 1, j))),
                                    FMul(A[i][2], MGet(B, 2, j))),
                               FMul(A[i][3], MGet(B, 2, j)))), R), Mat4New)

\* Mat4::operator *(const Mat4&): result is declared as a default matrix
Mat4Mul(A, B) == Mat4MulInto(A, B, Mat4New)

\* the assertions of get and set with the last column refused
Mat3Assert_ColumnShort(row, column) == (row >= 0 /\ row <= 2) /\ (column >= 0 /\ column <= 1)

\* the two assertions of Mat3::get and Mat3::set
Mat3Assert(row, column) == (row >= 0 /\ row <= 2) /\ (column >= 0 /\ column <= 2)

\* the two assertions of Mat4::get and Mat4::set
Mat4Assert(row, column) == (row >= 0 /\ row <= 3) /\ (column >= 0 /\ column <= 3)

MatAssert(A, row, column) ==
    IF Dim(A) = 3 THEN Mat3Assert(row, column) ELSE Mat4Assert(row, column)

\* the assertion of Vec4::get and Vec4::set in Vec4.cpp: index >= X && index <= W
Vec4Assert(index) == index >= 0 /\ index <= 3

\* extractMat3() copying the rows as columns
Mat4ExtractMat3_Transposed(M) ==
    For(0, 3, LAMBDA R, i:
        For(0, 3, LAMBDA Q, j: MSet(Q, i, j, M[j][i]), R), Mat3New)

\* Mat4::extractMat3()
Mat4ExtractMat3(M) ==
    For(0, 3, LAMBDA R, i:
        For(0, 3, LAMBDA Q, j: MSet(Q, i, j, M[i][j]), R), Mat3New)

MatMul(A, B) == IF Dim(A) = 3 THEN Mat3Mul(A, B) ELSE Mat4Mul(A, B)

MatMulInto(A, B, result) ==
    IF Dim(A) = 3 THEN Mat3MulInto(A, B, result) ELSE Mat4MulInto(A, B, result)

\* The loop of operator *(const Vec&), run on the local vector result
MatMulVecInto(A, v, result) ==
    For(0, Dim(A), LAMBDA r, i:
        VSet(r, i, IF Dim(A) = 3
                   THEN FAdd(FAdd(FMul(A[i][0], VGet(v, 0)),
                                  FMul(A[i][1], VGet(v, 1))),
                             FMul(A[i][2], VGet(v, 2)))
                   ELSE FAdd(FAdd(FAdd(FMul(A[i][0], VGet(v, 0)),
                                       FMul(A[i][1], VGet(v, 1))),
                                  FMul(A[i][2], VGet(v, 2))),
                             FMul(A[i][3], VGet(v, 3)))), result)

\* the matrix applied to a vector with the loop stopping after row 2
MatMulVec_ThreeRows(A, v) ==
    For(0, 3, LAMBDA r, i:
        VSet(r, i, IF Dim(A) = 3
                   THEN FAdd(FAdd(FMul(A[i][0], VGet(v, 0)),
                                  FMul(A[i][1], VGet(v, 1))),
                             FMul(A[i][2], VGet(v, 2)))
                   ELSE FAdd(FAdd(FAdd(FMul(A[i][0], VGet(v, 0)),
                                       FMul(A[i][1], VGet(v, 1))),
                                  FMul(A[i][2], VGet(v, 2))),
                             FMul(A[i][3], VGet(v, 3)))), VecNew(Dim(A)))

\* operator *(const Vec&): the matrix applied to a vector; result is declared
\* as a default vector
MatMulVec(A, v) == MatMulVecInto(A, v, VecNew(Dim(A)))

\* The loops of operator +(const Mat&), run on the local matrix result
MatAddInto(A, B, result) ==
    For(0, Dim(A), LAMBDA R, i:
        For(0, Dim(A), LAMBDA Q, j:
            MSet(Q, i, j, FAdd(A[i][j], MGet(B, i, j))), R), result)

\* operator +(const Mat&)
MatAdd(A, B) == MatAddInto(A, B, MatNew(Dim(A)))

\* The loops of operator -(const Mat&), run on the local matrix result
MatSubInto(A, B, result) ==
    For(0, Dim(A), LAMBDA R, i:
        For(0, Dim(A), LAMBDA Q, j:
            MSet(Q, i, j, FSub(A[i][j], MGet(B, i, j))), R), result)

\* operator -(const Mat&)
MatSub(A, B) == MatSubInto(A, B, MatNew(Dim(A)))

\* operator ==(const Mat&): false at the first pair of elements that differ
MatEq(A, B) == \A i \in Idx(Dim(A)) : \A j \in Idx(Dim(A)) : ~FNe(A[i][j], MGet(B, i, j))

\* transpose() with a copy in place of the swap
MatTranspose_OneWay(A) ==
    For(0, Dim(A) - 1, LAMBDA R, i:
        For(i + 1, Dim(A), LAMBDA Q, j:
            [Q EXCEPT ![j][i] = Q[i][j]], R), A)

\* transpose(): swap of [j][i] and [i][j] for i < j
MatTranspose(A) ==
    For(0, Dim(A) - 1, LAMBDA R, i:
        For(i + 1, Dim(A), LAMBDA Q, j:
            [Q EXCEPT ![j][i] = Q[i][j], ![i][j] = Q[j][i]], R), A)

\* the swaps of transpose() with the inner loop started at the first column
TransposeSwaps_EveryColumn(d) ==
    For(0, d - 1, LAMBDA s, i:
        For(0, d, LAMBDA t, j: Append(t, <<j, i>>), s), <<>>)

\* the calls std::swap(matrix[j][i], matrix[i][j]) of transpose(), in the
\* order it makes them, each as <<j, i>>
TransposeSwaps(d) ==
    For(0, d - 1, LAMBDA s, i:
        For(i + 1, d, LAMBDA t, j: Append(t, <<j, i>>), s), <<>>)

\* std::swap(A[p[1]][p[2]], A[p[2]][p[1]])
Swap(A, p) == [A EXCEPT ![p[1]][p[2]] = A[p[2]][p[1]], ![p[2]][p[1]] = A[p[1]][p[2]]]

RECURSIVE ApplySwaps(_, _)
\* the swaps of a sequence applied to A, first to last
ApplySwaps(A, sw) == IF sw = <<>> THEN A ELSE ApplySwaps(Swap(A, Head(sw)), Tail(sw))

(* ------------------- LU decomposition and inversion ------------------- *)

\* A run of decompose works on a store: st.m maps the names of the matrices
\* it can reach to their contents, st.dz records that a division had a
\* zero divisor.

Get(st, o, i, j) == MGet(st.m[o], i, j)

Set(st, o, i, j, x) == [st EXCEPT !.m[o] = MSet(@, i, j, x)]

\* o.set(i, j, x / y)
SetDiv(st, o, i, j, x, y) ==
    [st EXCEPT !.m[o] = MSet(@, i, j, FDiv(x, y)), !.dz = @ \/ y = F(0)]

\* the first loop nest leaving zero on the diagonal of the lower matrix
DecomposeClear_ZeroDiagonal(st, lo, up, d) ==
    For(0, d, LAMBDA s, i:
        For(i, d, LAMBDA t, j:
            Set(Set(t, lo, i, j, F(0)), up, i, j, F(0)), s), st)

\* self.decompose(lo, up), first loop nest: the diagonal and the elements
\* right of it, in both outputs
DecomposeClear(st, lo, up, d) ==
    For(0, d, LAMBDA s, i:
        For(i, d, LAMBDA t, j:
            Set(Set(t, lo, i, j, IF i = j THEN F(1) ELSE F(0)), up, i, j, F(0)), s), st)

\* row i of the upper matrix
DecomposeUpperRow(st, self, lo, up, d, i) ==
    For(i, d, LAMBDA t, j:
        LET t1 == Set(t, up, i, j, t.m[self][i][j])
            t2 == For(0, i, LAMBDA w, k:
                      Set(w, up, i, j, FSub(Get(w, up, i, j),
                                            FMul(Get(w, lo, i, k), Get(w, up, k, j)))), t1)
        IN  SetDiv(t2, up, i, j, Get(t2, up, i, j), Get(t2, lo, i, i)), st)

\* column i of the lower matrix, the elimination reading upper.get(i, k)
DecomposeLowerColumn_IndexSlip(st, self, lo, up, d, i) ==
    For(i + 1, d, LAMBDA t, j:
        LET t1 == Set(t, lo, j, i, t.m[self][j][i])
            t2 == For(0, i, LAMBDA w, k:
                      Set(w, lo, j, i, FSub(Get(w, lo, j, i),
                                            FMul(Get(w, lo, j, k), Get(w, up, i, k)))), t1)
        IN  SetDiv(t2, lo, j, i, Get(t2, lo, j, i), Get(t2, up, i, i)), st)

\* column i of the lower matrix
DecomposeLowerColumn(st, self, lo, up, d, i) ==
    For(i + 1, d, LAMBDA t, j:
        LET t1 == Set(t, lo, j, i, t.m[self][j][i])
            t2 == For(0, i, LAMBDA w, k:
                      Set(w, lo, j, i, FSub(Get(w, lo, j, i),
                                            FMul(Get(w, lo, j, k), Get(w, up, k, i)))), t1)
        IN  SetDiv(t2, lo, j, i, Get(t2, lo, j, i), Get(t2, up, i, i)), st)

\* o.set(i, j, x / y), the divisor y noted in st.divs as <<role, k, y>>:
\* y was read as lower.get(k, k) (role "lower") or upper.get(k, k) ("upper")
SetDivNoted(st, o, i, j, x, y, role, k) ==
    [st EXCEPT !.m[o] = MSet(@, i, j, FDiv(x, y)), !.dz = @ \/ y = F(0),
               !.divs = Append(@, <<role, k, y>>)]

\* self.decompose(lo, up) on a store that notes every divisor
DecomposeNoted(st, self, lo, up) ==
    LET d == Dim(st.m[self])
    IN  For(0, d, LAMBDA s, i:
            LET row == For(i, d, LAMBDA t, j:
                           LET t1 == Set(t, up, i, j, t.m[self][i][j])
                               t2 == For(0, i, LAMBDA w, k:
                                         Set(w, up, i, j,
                                             FSub(Get(w, up, i, j),
                                                  FMul(Get(w, lo, i, k), Get(w, up, k, j)))), t1)
                           IN  SetDivNoted(t2, up, i, j, Get(t2, up, i, j), Get(t2, lo, i, i),
                                           "lower", i), s)
            IN  For(i + 1, d, LAMBDA t, j:
                    LET t1 == Set(t, lo, j, i, t.m[self][j][i])
                        t2 == For(0, i, LAMBDA w, k:
                                  Set(w, lo, j, i,
                                      FSub(Get(w, lo, j, i),
                                           FMul(Get(w, lo, j, k), Get(w, up, k, i)))), t1)
                    IN  SetDivNoted(t2, lo, j, i, Get(t2, lo, j, i), Get(t2, up, i, i),
                                    "upper", i), row),
            DecomposeClear(st, lo, up, d))

\* self.decompose(lo, up)
Decompose(st, self, lo, up) ==
    LET d == Dim(st.m[self])
    IN  For(0, d, LAMBDA s, i:
            DecomposeLowerColumn(DecomposeUpperRow(s, self, lo, up, d, i), self, lo, up, d, i),
            DecomposeClear(st, lo, up, d))

\* forward substitution reading column i where the code reads row i
SolveLInto_ColumnWise(M, absolute, solution) ==
    For(0, Dim(M), LAMBDA s, i:
        LET x1 == VSet(s.x, i, VGet(absolute, i))
            x2 == For(0, i, LAMBDA x, j:
                      VSet(x, i, FSub(VGet(x, i), FMul(M[j][i], VGet(x, j)))), x1)
        IN  [x |-> VSet(x2, i, FDiv(VGet(x2, i), M[i][i])), dz |-> s.dz \/ M[i][i] = F(0)],
        [x |-> solution, dz |-> FALSE])

\* The loops of solveL, run on the local vector solution
SolveLInto(M, absolute, solution) ==
    For(0, Dim(M), LAMBDA s, i:
        LET x1 == VSet(s.x, i, VGet(absolute, i))
            x2 == For(0, i, LAMBDA x, j:
                      VSet(x, i, FSub(VGet(x, i), FMul(M[i][j], VGet(x, j)))), x1)
        IN  [x |-> VSet(x2, i, FDiv(VGet(x2, i), M[i][i])), dz |-> s.dz \/ M[i][i] = F(0)],
        [x |-> solution, dz |-> FALSE])

\* forward substitution without the division by the diagonal element
SolveL_NoDivision(M, absolute) ==
    For(0, Dim(M), LAMBDA s, i:
        LET x1 == VSet(s.x, i, VGet(absolute, i))
            x2 == For(0, i, LAMBDA x, j:
                      VSet(x, i, FSub(VGet(x, i), FMul(M[i][j], VGet(x, j)))), x1)
        IN  [x |-> x2, dz |-> s.dz \/ M[i][i] = F(0)],
        [x |-> VecNew(Dim(M)), dz |-> FALSE])

\* M.solveL(absolute): forward substitution; [x |-> solution, dz |-> zero divisor met]
SolveL(M, absolute) == SolveLInto(M, absolute, VecNew(Dim(M)))

\* The loops of solveU, run on the local vector solution
SolveUInto(M, absolute, solution) ==
    ForDown(Dim(M) - 1, -1, LAMBDA s, i:
        LET x1 == VSet(s.x, i, VGet(absolute, i))
            x2 == ForDown(Dim(M) - 1, i, LAMBDA x, j:
                      VSet(x, i, FSub(VGet(x, i), FMul(M[i][j], VGet(x, j)))), x1)
        IN  [x |-> VSet(x2, i, FDiv(VGet(x2, i), M[i][i])), dz |-> s.dz \/ M[i][i] = F(0)],
        [x |-> solution, dz |-> FALSE])

\* backward substitution with the inner loop stopping one element early
SolveU_StopsEarly(M, absolute) ==
    ForDown(Dim(M) - 1, -1, LAMBDA s, i:
        LET x1 == VSet(s.x, i, VGet(absolute, i))
            x2 == ForDown(Dim(M) - 1, i + 1, LAMBDA x, j:
                      VSet(x, i, FSub(VGet(x, i), FMul(M[i][j], VGet(x, j)))), x1)
        IN  [x |-> VSet(x2, i, FDiv(VGet(x2, i), M[i][i])), dz |-> s.dz \/ M[i][i] = F(0)],
        [x |-> VecNew(Dim(M)), dz |-> FALSE])

\* M.solveU(absolute): backward substitution
SolveU(M, absolute) == SolveUInto(M, absolute, VecNew(Dim(M)))

\* every column the first column of the identity
IdentityColumn_First(d, i) == [k \in Idx(d) |-> IF k = 0 THEN F(1) ELSE F(0)]

\* the columns of the identity that invert() solves for
IdentityColumn(d, i) == [k \in Idx(d) |-> IF k = i THEN F(1) ELSE F(0)]

\* invert() storing each solution as a row
Invert_RowWise(M) ==
    LET d  == Dim(M)
        lu == Decompose([m |-> [o \in {"this", "lower", "upper"} |->
                                   IF o = "this" THEN M ELSE MatNew(d)],
                         dz |-> FALSE], "this", "lower", "upper")
        zero == [i \in Idx(d) |-> [j \in Idx(d) |-> F(0)]]
    IN  For(0, d, LAMBDA s, i:
            LET z == SolveL(lu.m["lower"], IdentityColumn(d, i))
                x == SolveU(lu.m["upper"], z.x)
            IN  [m  |-> For(0, d, LAMBDA R, j: [R EXCEPT ![i][j] = VGet(x.x, j)], s.m),
                 dz |-> s.dz \/ z.dz \/ x.dz],
            [m |-> zero, dz |-> lu.dz])

\* M.invert(): [m |-> the receiver afterwards, dz |-> zero divisor met]
Invert(M) ==
    LET d  == Dim(M)
        lu == Decompose([m |-> [o \in {"this", "lower", "upper"} |->
                                   IF o = "this" THEN M ELSE MatNew(d)],
                         dz |-> FALSE], "this", "lower", "upper")
        zero == [i \in Idx(d) |-> [j \in Idx(d) |-> F(0)]]
    IN  For(0, d, LAMBDA s, i:
            LET z == SolveL(lu.m["lower"], IdentityColumn(d, i))
                x == SolveU(lu.m["upper"], z.x)
            IN  [m  |-> For(0, d, LAMBDA R, j: [R EXCEPT ![j][i] = VGet(x.x, j)], s.m),
                 dz |-> s.dz \/ z.dz \/ x.dz],
            [m |-> zero, dz |-> lu.dz])

\* operator -() leaving the last component as it is
VecNeg_KeepsLast(v) ==
    VecOf([i \in 1..Cardinality(DOMAIN v) |->
              IF i = Cardinality(DOMAIN v) THEN v[i - 1] ELSE FNeg(v[i - 1])])

\* Vec::operator -(): a new vector of the negated components
VecNeg(v) == VecOf([i \in 1..Cardinality(DOMAIN v) |-> FNeg(v[i - 1])])

\* Vec::operator +=(const Vec&), component by component
VecAddAssign(me, v) == [i \in DOMAIN me |-> FAdd(me[i], VGet(v, i))]

\* Vec::operator +(const Vec&): a copy of the receiver, += on the copy
VecAdd(me, v) == VecAddAssign(me, v)

\* Vec::operator ==(const Vec&)
VecEq(me, v) == \A i \in DOMAIN me : FEq(me[i], VGet(v, i))

\* the number of components of a vector
VDim(v) == Cardinality(DOMAIN v)

\* Vec4::ZERO
Vec4ZERO == VecOf(<<F(0), F(0), F(0), F(0)>>)

\* the floats a caller passes to the vectors' set() and constructors
VecVals == {F(1), F(2), PInf}

\* cross() with the second component's terms the other way round
Vec3Cross_LeftHanded(me, v) ==
    VecOf(<<FSub(FMul(me[1], VGet(v, 2)), FMul(me[2], VGet(v, 1))),
            FSub(FMul(me[0], VGet(v, 2)), FMul(me[2], VGet(v, 0))),
            FSub(FMul(me[0], VGet(v, 1)), FMul(me[1], VGet(v, 0)))>>)

\* Vec3::cross(const Vec3&)
Vec3Cross(me, v) ==
    VecOf(<<FSub(FMul(me[1], VGet(v, 2)), FMul(me[2], VGet(v, 1))),
            FSub(FMul(me[2], VGet(v, 0)), FMul(me[0], VGet(v, 2))),
            FSub(FMul(me[0], VGet(v, 1)), FMul(me[1], VGet(v, 0)))>>)

\* Vec3::dot(const Vec3&)
Vec3Dot(me, v) ==
    FAdd(FAdd(FMul(me[0], VGet(v, 0)), FMul(me[1], VGet(v, 1))), FMul(me[2], VGet(v, 2)))

\* Vec4::dot(const Vec4&)
Vec4Dot(me, v) ==
    FAdd(FAdd(FAdd(FMul(me[0], VGet(v, 0)), FMul(me[1], VGet(v, 1))),
              FMul(me[2], VGet(v, 2))), FMul(me[3], VGet(v, 3)))

VecDot(me, v) == IF VDim(me) = 3 THEN Vec3Dot(me, v) ELSE Vec4Dot(me, v)

\* squareLength() with the last component left out
Vec3SquareLength_TwoTerms(me) == FAdd(FMul(me[0], me[0]), FMul(me[1], me[1]))

\* Vec3::squareLength()
Vec3SquareLength(me) ==
    FAdd(FAdd(FMul(me[0], me[0]), FMul(me[1], me[1])), FMul(me[2], me[2]))

\* Vec4(const Vec3&, float) taking W from the vector's last component
Vec4FromVec3_RepeatsZ(vector, w) ==
    VecOf(<<VGet(vector, 0), VGet(vector, 1), VGet(vector, 2), VGet(vector, 2)>>)

\* Vec4::Vec4(const Vec3&, float)
Vec4FromVec3(vector, w) ==
    VecOf(<<VGet(vector, 0), VGet(vector, 1), VGet(vector, 2), w>>)

\* Vec4::extractVec3()
Vec4ExtractVec3(me) == VecOf(<<me[0], me[1], me[2]>>)

\* data() reading the storage column by column
MatData_ColumnMajor(A) ==
    [k \in 0..(Dim(A) * Dim(A) - 1) |-> A[k % Dim(A)][k \div Dim(A)]]

\* Mat::data(): the floats of matrix[n][n] in the order they are stored,
\* matrix[0][0..n-1] first, then matrix[1][0..n-1], ...
MatData(A) ==
    [k \in 0..(Dim(A) * Dim(A) - 1) |-> A[k \div Dim(A)][k % Dim(A)]]

\* Vec::data(): the floats of vector[n] in the order they are stored
VecData(v) == [k \in 0..(VDim(v) - 1) |-> v[k]]

(* --------------------------- the state machine ------------------------ *)

Objs == {"a", "b", "lower", "upper", "r"}

VObjs == {"v", "u", "r"}

Rec(op, x, y, dz) == [op |-> op, x |-> x, y |-> y, dz |-> dz]

\* every object default-constructed
Init ==
    /\ n \in {3, 4}
    /\ mat = [o \in Objs |-> MatNew(n)]
    /\ vec = [o \in VObjs |-> VecNew(n)]
    /\ orig = [m |-> mat, v |-> vec]
    /\ ops = <<>>
    /\ nsets = 0

\* mat[o].set(i, j, x)
SetElem(o, i, j, x) ==
    /\ nsets < MaxSets
    /\ ops = <<>>
    /\ nsets' = nsets + 1
    /\ mat' = [mat EXCEPT ![o] = MSet(@, i, j, F(x))]
    /\ orig' = [m |-> mat', v |-> vec]
    /\ ops' = <<>>
    /\ UNCHANGED <<n, vec>>

\* vec.v.set(i, x)
VecSet(i, x) ==
    /\ nsets < MaxSets
    /\ ops = <<>>
    /\ nsets' = nsets + 1
    /\ vec' = [vec EXCEPT !["v"] = VSet(@, i, F(x))]
    /\ orig' = [m |-> mat, v |-> vec']
    /\ ops' = <<>>
    /\ UNCHANGED <<n, mat>>

\* r = x * y
Multiply(x, y) ==
    /\ Len(ops) < MaxOps
    /\ mat' = [mat EXCEPT !["r"] = MatMul(mat[x], mat[y])]
    /\ ops' = Append(ops, Rec("mul", x, y, FALSE))
    /\ UNCHANGED <<n, vec, orig, nsets>>

\* r = x - y
Subtract(x, y) ==
    /\ Len(ops) < MaxOps
    /\ mat' = [mat EXCEPT !["r"] = MatSub(mat[x], mat[y])]
    /\ ops' = Append(ops, Rec("sub", x, y, FALSE))
    /\ UNCHANGED <<n, vec, orig, nsets>>

\* a.transpose()
Transpose ==
    /\ Len(ops) < MaxOps
    /\ mat' = [mat EXCEPT !["a"] = MatTranspose(@)]
    /\ ops' = Append(ops, Rec("transpose", "a", "a", FALSE))
    /\ UNCHANGED <<n, vec, orig, nsets>>

\* a.decompose(lo, up)
DecomposeA(lo, up) ==
    /\ Len(ops) < MaxOps
    /\ LET st == Decompose([m |-> mat, dz |-> FALSE], "a", lo, up)
       IN  /\ mat' = st.m
           /\ ops' = Append(ops, Rec("decompose", lo, up, st.dz))
    /\ UNCHANGED <<n, vec, orig, nsets>>

\* a.invert()
InvertA ==
    /\ Len(ops) < MaxOps
    /\ LET res == Invert(mat["a"])
       IN  /\ mat' = [mat EXCEPT !["a"] = res.m]
           /\ ops' = Append(ops, Rec("invert", "a", "a", res.dz))
    /\ UNCHANGED <<n, vec, orig, nsets>>

\* u = -v
Negate ==
    /\ Len(ops) < MaxOps
    /\ vec' = [vec EXCEPT !["u"] = VecNeg(vec["v"])]
    /\ ops' = Append(ops, Rec("neg", "v", "v", FALSE))
    /\ UNCHANGED <<n, mat, orig, nsets>>

\* r = v + u
Plus ==
    /\ Len(ops) < MaxOps
    /\ vec' = [vec EXCEPT !["r"] = VecAdd(vec["v"], vec["u"])]
    /\ ops' = Append(ops, Rec("add", "v", "u", FALSE))
    /\ UNCHANGED <<n, mat, orig, nsets>>

\* the trace entry of a call that returned ret
Ret(op, x, y, ret) == [op |-> op, x |-> x, y |-> y, dz |-> FALSE, ret |-> ret]

\* vec[o].set(i, x), the header implementation
VecSetOf(o, i, x) ==
    /\ nsets < MaxSets
    /\ ops = <<>>
    /\ nsets' = nsets + 1
    /\ vec' = [vec EXCEPT ![o] = VSet(@, i, x)]
    /\ orig' = [m |-> mat, v |-> vec']
    /\ ops' = <<>>
    /\ UNCHANGED <<n, mat>>

\* vec[o].get(i), the header implementation
VecGetOf(o, i) ==
    /\ Len(ops) < MaxOps
    /\ ops' = Append(ops, Ret("get", o, i, VGet(vec[o], i)))
    /\ UNCHANGED <<n, mat, vec, orig, nsets>>

\* r = x.cross(y), of two Vec3
Cross(x, y) ==
    /\ Len(ops) < MaxOps
    /\ VDim(vec[x]) = 3
    /\ VDim(vec[y]) = 3
    /\ vec' = [vec EXCEPT !["r"] = Vec3Cross(vec[x], vec[y])]
    /\ ops' = Append(ops, Rec("cross", x, y, FALSE))
    /\ UNCHANGED <<n, mat, orig, nsets>>

\* x.dot(y)
Dot(x, y) ==
    /\ Len(ops) < MaxOps
    /\ ops' = Append(ops, Ret("dot", x, y, VecDot(vec[x], vec[y])))
    /\ UNCHANGED <<n, mat, vec, orig, nsets>>

\* x.squareLength(), of a Vec3
SquareLength(x) ==
    /\ Len(ops) < MaxOps
    /\ VDim(vec[x]) = 3
    /\ ops' = Append(ops, Ret("squareLength", x, x, Vec3SquareLength(vec[x])))
    /\ UNCHANGED <<n, mat, vec, orig, nsets>>

\* r = Vec4(x, w), of a Vec3 x
Widen(x, w) ==
    /\ Len(ops) < MaxOps
    /\ VDim(vec[x]) = 3
    /\ vec' = [vec EXCEPT !["r"] = Vec4FromVec3(vec[x], w)]
    /\ ops' = Append(ops, Rec("Vec4", x, w, FALSE))
    /\ UNCHANGED <<n, mat, orig, nsets>>

\* r = x.extractVec3(), of a Vec4 x
ExtractVec3(x) ==
    /\ Len(ops) < MaxOps
    /\ VDim(vec[x]) = 4
    /\ vec' = [vec EXCEPT !["r"] = Vec4ExtractVec3(vec[x])]
    /\ ops' = Append(ops, Rec("extractVec3", x, x, FALSE))
    /\ UNCHANGED <<n, mat, orig, nsets>>

\* mat[o].data()
Data(o) ==
    /\ Len(ops) < MaxOps
    /\ ops' = Append(ops, Ret("data", o, o, MatData(mat[o])))
    /\ UNCHANGED <<n, mat, vec, orig, nsets>>

\* vec[o].data()
VecDataOf(o) ==
    /\ Len(ops) < MaxOps
    /\ ops' = Append(ops, Ret("Vec::data", o, o, VecData(vec[o])))
    /\ UNCHANGED <<n, mat, vec, orig, nsets>>

\* the trace entry of a call to an accessor that asserts on its indices;
\* y holds the arguments, failed tells that the assertion failed, ret holds
\* the float returned, <<>> when nothing was
Checked(op, x, y, ret, failed) ==
    [op |-> op, x |-> x, y |-> y, dz |-> FALSE, ret |-> ret, failed |-> failed]

\* an assertion failed: the program was aborted
Aborted == \E k \in 1..Len(ops) : "failed" \in DOMAIN ops[k] /\ ops[k].failed

\* mat[o].set(row, column, x), with its assertions
CallSet(o, row, column, x) ==
    /\ Len(ops) < MaxOps
    /\ ~Aborted
    /\ IF MatAssert(mat[o], row, column)
       THEN /\ mat' = [mat EXCEPT ![o] = MSet(@, row, column, x)]
            /\ ops' = Append(ops, Checked("set", o, <<row, column, x>>, <<>>, FALSE))
       ELSE /\ mat' = mat
            /\ ops' = Append(ops, Checked("set", o, <<row, column, x>>, <<>>, TRUE))
    /\ UNCHANGED <<n, vec, orig, nsets>>

\* mat[o].get(row, column), with its assertions
CallGet(o, row, column) ==
    /\ Len(ops) < MaxOps
    /\ ~Aborted
    /\ IF MatAssert(mat[o], row, column)
       THEN ops' = Append(ops, Checked("get", o, <<row, column>>, MGet(mat[o], row, column), FALSE))
       ELSE ops' = Append(ops, Checked("get", o, <<row, column>>, <<>>, TRUE))
    /\ UNCHANGED <<n, mat, vec, orig, nsets>>

\* vec[o].set(index, x) of Vec4.cpp, with its assertion
CallVec4Set(o, index, x) ==
    /\ Len(ops) < MaxOps
    /\ ~Aborted
    /\ VDim(vec[o]) = 4
    /\ IF Vec4Assert(index)
       THEN /\ vec' = [vec EXCEPT ![o][index] = x]
            /\ ops' = Append(ops, Checked("Vec4::set", o, <<index, x>>, <<>>, FALSE))
       ELSE /\ vec' = vec
            /\ ops' = Append(ops, Checked("Vec4::set", o, <<index, x>>, <<>>, TRUE))
    /\ UNCHANGED <<n, mat, orig, nsets>>

\* vec[o].get(index) of Vec4.cpp, with its assertion
CallVec4Get(o, index) ==
    /\ Len(ops) < MaxOps
    /\ ~Aborted
    /\ VDim(vec[o]) = 4
    /\ IF Vec4Assert(index)
       THEN ops' = Append(ops, Checked("Vec4::get", o, <<index>>, vec[o][index], FALSE))
       ELSE ops' = Append(ops, Checked("Vec4::get", o, <<index>>, <<>>, TRUE))
    /\ UNCHANGED <<n, mat, vec, orig, nsets>>

\* r = a.extractMat3(), of a Mat4
ExtractMat3 ==
    /\ Len(ops) < MaxOps
    /\ Dim(mat["a"]) = 4
    /\ mat' = [mat EXCEPT !["r"] = Mat4ExtractMat3(mat["a"])]
    /\ ops' = Append(ops, Rec("extractMat3", "a", "a", FALSE))
    /\ UNCHANGED <<n, vec, orig, nsets>>

\* r = a.solveL(v)
SolveLA ==
    /\ Len(ops) < MaxOps
    /\ LET res == SolveL(mat["a"], vec["v"])
       IN  /\ vec' = [vec EXCEPT !["r"] = res.x]
           /\ ops' = Append(ops, Rec("solveL", "a", "v", res.dz))
    /\ UNCHANGED <<n, mat, orig, nsets>>

\* r = a.solveU(v)
SolveUA ==
    /\ Len(ops) < MaxOps
    /\ LET res == SolveU(mat["a"], vec["v"])
       IN  /\ vec' = [vec EXCEPT !["r"] = res.x]
           /\ ops' = Append(ops, Rec("solveU", "a", "v", res.dz))
    /\ UNCHANGED <<n, mat, orig, nsets>>

\* r = a * v, the matrix applied to a vector
MulVec ==
    /\ Len(ops) < MaxOps
    /\ vec' = [vec EXCEPT !["r"] = MatMulVec(mat["a"], vec["v"])]
    /\ ops' = Append(ops, Rec("mulvec", "a", "v", FALSE))
    /\ UNCHANGED <<n, mat, orig, nsets>>

\* v += u storing the sum in the argument as well
PlusAssign_ChangesArgument ==
    /\ Len(ops) < MaxOps
    /\ vec' = [vec EXCEPT !["v"] = VecAddAssign(vec["v"], vec["u"]),
                          !["u"] = VecAddAssign(vec["v"], vec["u"])]
    /\ ops' = Append(ops, Rec("+=", "v", "u", FALSE))
    /\ UNCHANGED <<n, mat, orig, nsets>>

\* v += u
PlusAssign ==
    /\ Len(ops) < MaxOps
    /\ vec' = [vec EXCEPT !["v"] = VecAddAssign(vec["v"], vec["u"])]
    /\ ops' = Append(ops, Rec("+=", "v", "u", FALSE))
    /\ UNCHANGED <<n, mat, orig, nsets>>

\* x == y, of two matrices
Equals(x, y) ==
    /\ Len(ops) < MaxOps
    /\ ops' = Append(ops, Ret("==", x, y, MatEq(mat[x], mat[y])))
    /\ UNCHANGED <<n, mat, vec, orig, nsets>>

\* r = x + y
Add(x, y) ==
    /\ Len(ops) < MaxOps
    /\ mat' = [mat EXCEPT !["r"] = MatAdd(mat[x], mat[y])]
    /\ ops' = Append(ops, Rec("sum", x, y, FALSE))
    /\ UNCHANGED <<n, vec, orig, nsets>>

\* Matrix products of the caller's matrices, inversion making some singular
Next ==
    \/ \E o \in {"a", "b"} : \E i \in Idx(n) : \E j \in Idx(n) : \E x \in Vals :
           SetElem(o, i, j, x)
    \/ Multiply("a", "b")
    \/ Multiply("b", "a")
    \/ InvertA

Spec == Init /\ [][Next]_vars

\* LU decomposition and inversion, the outputs holding what the caller left
NextLU ==
    \/ \E i \in Idx(n) : \E j \in Idx(n) : \E x \in Vals : SetElem("a", i, j, x)
    \/ DecomposeA("lower", "upper")
    \/ DecomposeA("upper", "lower")
    \/ InvertA

SpecLU == Init /\ [][NextLU]_vars

\* Sums and differences of matrices and vectors
NextAdd ==
    \/ \E i \in Idx(n) : \E j \in Idx(n) : \E x \in Vals : SetElem("a", i, j, x)
    \/ \E i \in Idx(n) : \E x \in Vals : VecSet(i, x)
    \/ Subtract("a", "a")
    \/ Subtract("a", "b")
    \/ InvertA
    \/ Negate
    \/ Plus

SpecAdd == Init /\ [][NextAdd]_vars

\* Transposition, inversion making some matrices singular
NextTr ==
    \/ \E i \in Idx(n) : \E j \in Idx(n) : \E x \in Vals : SetElem("a", i, j, x)
    \/ Transpose
    \/ InvertA

SpecTr == Init /\ [][NextTr]_vars

\* Products of vectors
NextVec ==
    \/ \E o \in {"v", "u"} : \E i \in Idx(n) : \E x \in VecVals : VecSetOf(o, i, x)
    \/ Cross("v", "u")
    \/ Cross("v", "v")
    \/ Dot("v", "u")
    \/ Dot("v", "v")
    \/ SquareLength("v")

SpecVec == Init /\ [][NextVec]_vars

\* Components of vectors, conversions between Vec3 and Vec4
NextConv ==
    \/ \E i \in -1..n : \E x \in VecVals : VecSetOf("v", i, x)
    \/ \E o \in {"v", "r"} : \E i \in -1..n : VecGetOf(o, i)
    \/ \E w \in VecVals : Widen("v", w)
    \/ ExtractVec3("v")
    \/ ExtractVec3("r")

SpecConv == Init /\ [][NextConv]_vars

\* The storage of matrices and vectors after set, transpose and invert
NextData ==
    \/ \E i \in Idx(n) : \E j \in Idx(n) : \E x \in Vals : SetElem("a", i, j, x)
    \/ \E i \in Idx(n) : \E x \in Vals : VecSet(i, x)
    \/ Transpose
    \/ InvertA
    \/ Data("a")
    \/ VecDataOf("v")

SpecData == Init /\ [][NextData]_vars

\* The accessors that assert on their indices, called with indices inside
\* and outside the matrix or vector
NextAcc ==
    \/ \E row \in -1..n : \E column \in -1..n : \E x \in VecVals :
           CallSet("a", row, column, x)
    \/ \E row \in -1..n : \E column \in -1..n : CallGet("a", row, column)
    \/ \E index \in -1..n : \E x \in VecVals : CallVec4Set("v", index, x)
    \/ \E index \in -1..n : CallVec4Get("v", index)

SpecAcc == Init /\ [][NextAcc]_vars

\* The upper left 3 x 3 elements of a Mat4
NextExtract ==
    \/ \E i \in Idx(n) : \E j \in Idx(n) : \E x \in Vals : SetElem("a", i, j, x)
    \/ Transpose
    \/ ExtractMat3

SpecExtract == Init /\ [][NextExtract]_vars

\* Triangular systems, decomposition and inversion, of matrices with and
\* without zeros on the diagonal
NextSolve ==
    \/ \E i \in Idx(n) : \E j \in Idx(n) : \E x \in Vals : SetElem("a", i, j, x)
    \/ \E i \in Idx(n) : \E x \in VecVals : VecSetOf("v", i, x)
    \/ SolveLA
    \/ SolveUA
    \/ DecomposeA("lower", "upper")
    \/ InvertA

SpecSolve == Init /\ [][NextSolve]_vars

\* Decomposition into outputs that are two matrices, one matrix, or the
\* receiver
NextPivot ==
    \/ \E i \in Idx(n) : \E j \in Idx(n) : \E x \in Vals : SetElem("a", i, j, x)
    \/ DecomposeA("lower", "upper")
    \/ DecomposeA("lower", "lower")
    \/ DecomposeA("a", "upper")
    \/ InvertA

SpecPivot == Init /\ [][NextPivot]_vars

\* The operations side by side, on matrices and vectors that differ from
\* the default ones in their first elements
NextFrame ==
    \/ \E i \in 0..1 : \E j \in 0..1 : \E x \in {0, 2} : SetElem("a", i, j, x)
    \/ VecSetOf("v", 0, F(2))
    \/ Multiply("a", "b")
    \/ Subtract("a", "b")
    \/ Equals("a", "b")
    \/ MulVec
    \/ Transpose
    \/ DecomposeA("lower", "upper")
    \/ DecomposeA("a", "upper")
    \/ InvertA
    \/ SolveLA
    \/ SolveUA
    \/ Data("a")
    \/ ExtractMat3
    \/ Negate
    \/ Plus
    \/ PlusAssign
    \/ Dot("v", "u")
    \/ Cross("v", "u")
    \/ VecGetOf("v", 0)
    \/ ExtractVec3("v")

SpecFrame == Init /\ [][NextFrame]_vars

\* The operations of the matrix classes that index elements and components
NextIndex ==
    \/ \E i \in 0..1 : \E j \in 0..1 : \E x \in {0, 2} : SetElem("a", i, j, x)
    \/ Multiply("a", "b")
    \/ Add("a", "b")
    \/ Subtract("a", "b")
    \/ Equals("a", "b")
    \/ MulVec
    \/ Transpose
    \/ DecomposeA("lower", "upper")
    \/ InvertA
    \/ SolveLA
    \/ SolveUA
    \/ ExtractMat3

SpecIndex == Init /\ [][NextIndex]_vars

\* The operators that declare a default object and return it
NextResult ==
    \/ \E i \in Idx(n) : \E j \in Idx(n) : \E x \in {0, 2} : SetElem("a", i, j, x)
    \/ SetElem("b", 0, 1, 2)
    \/ \E i \in Idx(n) : \E x \in VecVals : VecSetOf("v", i, x)
    \/ Multiply("a", "b")
    \/ Add("a", "b")
    \/ Subtract("a", "b")
    \/ MulVec
    \/ SolveLA
    \/ SolveUA

SpecResult == Init /\ [][NextResult]_vars

(* ------------------------------ properties ---------------------------- *)

NOps == Len(ops)

Last == ops[Len(ops)]

\* the last operation applied was op
Did(op) == NOps > 0 /\ Last.op = op

AllFinite(M) == \A i \in DOMAIN M : \A j \in DOMAIN M[i] : IsFinite(M[i][j])

AllFiniteVec(v) == \A i \in DOMAIN v : IsFinite(v[i])

Kronecker(i, j) == IF i = j THEN F(1) ELSE F(0)

IsIdentity(M) == \A i \in DOMAIN M : \A j \in DOMAIN M[i] : M[i][j] = Kronecker(i, j)

IsZeroMat(M) == \A i \in DOMAIN M : \A j \in DOMAIN M[i] : M[i][j] = F(0)

IsZeroVec(v) == \A i \in DOMAIN v : v[i] = F(0)

Column(M, j) == [i \in DOMAIN M |-> M[i][j]]

\* the pivots of M: the diagonal of the upper factor decompose() builds
Pivots(M) ==
    LET lu == Decompose([m |-> [o \in {"this", "lower", "upper"} |->
                                   IF o = "this" THEN M ELSE MatNew(Dim(M))],
                         dz |-> FALSE], "this", "lower", "upper")
    IN  [i \in DOMAIN M |-> lu.m["upper"][i][i]]

\* a.decompose(lo, up) was the last operation, and the first decomposition
\* since the matrices were constructed: both outputs were default-constructed
DecomposedFresh ==
    /\ Did("decompose")
    /\ \A k \in 1..(NOps - 1) : ops[k].op # "decompose"

\* C1: after a.decompose(lower, upper) on default-constructed outputs, for a
\* receiver of finite elements whose pivots used as divisors are not zero,
\* lower * upper == a
C1_LUReconstruction ==
    (/\ DecomposedFresh
     /\ AllFinite(mat["a"])
     /\ \A i \in 0..(n - 2) : mat[Last.y][i][i] # F(0))
    => MatEq(MatMul(mat[Last.x], mat[Last.y]), mat["a"])

\* a decomposition that eliminated something, in a Mat4
C1_Witness ==
    /\ DecomposedFresh
    /\ n = 4
    /\ AllFinite(mat["a"])
    /\ \A i \in 0..(n - 2) : mat[Last.y][i][i] # F(0)
    /\ ~IsIdentity(mat[Last.x])
    /\ mat[Last.y] # mat["a"]

UnitLowerTriangular(M) ==
    \A i \in DOMAIN M : \A j \in DOMAIN M :
        /\ i = j => M[i][j] = F(1)
        /\ i < j => M[i][j] = F(0)

UpperTriangular(M) == \A i \in DOMAIN M : \A j \in DOMAIN M : i > j => M[i][j] = F(0)

\* C2: after a.decompose(lo, up), whatever the outputs held before, lo is
\* unit lower-triangular and up is upper-triangular (stated for the runs in
\* which no division had a zero divisor)
C2_TriangularOutputs ==
    (Did("decompose") /\ \A k \in 1..NOps : ~ops[k].dz)
    => UnitLowerTriangular(mat[Last.x]) /\ UpperTriangular(mat[Last.y])

\* C3: a.invert() as the first operation on a matrix whose n pivots are not
\* zero leaves X in a with M * X == identity, and column i of X solves
\* L * (U * x) = e_i for the factors L, U of M
C3_InverseIsRightInverse ==
    (/\ NOps = 1 /\ Last.op = "invert"
     /\ \A i \in Idx(n) : Pivots(orig.m["a"])[i] # F(0))
    => /\ MatEq(MatMul(orig.m["a"], mat["a"]), MatNew(n))
       /\ LET lu == Decompose([m |-> orig.m, dz |-> FALSE], "a", "lower", "upper")
          IN  \A i \in Idx(n) :
                  MatMulVec(lu.m["lower"], MatMulVec(lu.m["upper"], Column(mat["a"], i)))
                      = IdentityColumn(n, i)

\* an inversion of a Mat4 that is not diagonal
C3_Witness ==
    /\ NOps = 1 /\ Last.op = "invert"
    /\ n = 4
    /\ \A i \in Idx(n) : Pivots(orig.m["a"])[i] # F(0)
    /\ \E i \in Idx(n) : \E j \in Idx(n) : i # j /\ mat["a"][i][j] # F(0)

AbsF(x) == <<Abs(x[1]), x[2]>>

FLess(x, y) == x[1] * y[2] < y[1] * x[2]

RowSumOffDiagonal(M, i) ==
    LET t == [j \in DOMAIN M |-> IF j = i THEN F(0) ELSE AbsF(M[i][j])]
    IN  For(0, Dim(M), LAMBDA acc, j: <<FAdd(acc[1], t[j])>>, <<F(0)>>)[1]

\* every diagonal element exceeds, in magnitude, the rest of its row
DiagonallyDominant(M) ==
    /\ AllFinite(M)
    /\ \A i \in DOMAIN M : FLess(RowSumOffDiagonal(M, i), AbsF(M[i][i]))

\* C4: two inversions of a diagonally dominant matrix restore it, and neither
\* divides by zero
C4_InvertRoundTrip ==
    (/\ NOps = 2 /\ ops[1].op = "invert" /\ ops[2].op = "invert"
     /\ DiagonallyDominant(orig.m["a"]))
    => /\ mat["a"] = orig.m["a"]
       /\ ~ops[1].dz
       /\ ~ops[2].dz

\* two inversions of a diagonally dominant matrix that is not diagonal
C4_Witness ==
    /\ NOps = 2 /\ ops[1].op = "invert" /\ ops[2].op = "invert"
    /\ DiagonallyDominant(orig.m["a"])
    /\ \E i \in Idx(n) : \E j \in Idx(n) : i # j /\ orig.m["a"][i][j] # F(0)

\* C5: a default-constructed matrix after invert() is ==, by operator ==, to
\* a default-constructed matrix
C5_InvertIdentity ==
    (NOps = 1 /\ Last.op = "invert" /\ orig.m["a"] = MatNew(n))
    => MatEq(mat["a"], MatNew(n))

\* the identity, inverted
C5_Witness ==
    /\ NOps = 1 /\ Last.op = "invert"
    /\ orig.m["a"] = MatNew(n)
    /\ n = 3

\* C6 as stated: for every M, M * I and I * M have the elements of M
C6_IdentityLaws ==
    Did("mul") =>
        /\ mat[Last.y] = MatNew(n) => mat["r"] = mat[Last.x]
        /\ mat[Last.x] = MatNew(n) => mat["r"] = mat[Last.y]

\* C6, amended: for every M of finite elements, M * I == M and I * M == M
C6_IdentityLawsFinite ==
    Did("mul") =>
        /\ (mat[Last.y] = MatNew(n) /\ AllFinite(mat[Last.x]))
               => MatEq(mat["r"], mat[Last.x])
        /\ (mat[Last.x] = MatNew(n) /\ AllFinite(mat[Last.y]))
               => MatEq(mat["r"], mat[Last.y])

\* a Mat4 with elements off the diagonal, multiplied by the identity from
\* the right and from the left
C6_Witness ==
    /\ Did("mul")
    /\ n = 4
    /\ mat["b"] = MatNew(n)
    /\ AllFinite(mat["a"])
    /\ \E i \in Idx(n) : mat["a"][i][3] # F(0) /\ i # 3
    /\ NOps = 2 /\ ops[1].op = "mul" /\ ops[1].x # Last.x

\* C7: an even number of transpose() calls leaves the receiver as it was
C7_TransposeInvolution ==
    (/\ NOps > 0
     /\ NOps % 2 = 0
     /\ \A k \in 1..NOps : ops[k].op = "transpose")
    => mat["a"] = orig.m["a"]

\* a matrix that is not symmetric, transposed twice
C7_Witness ==
    /\ NOps = 2 /\ ops[1].op = "transpose" /\ ops[2].op = "transpose"
    /\ MatTranspose(mat["a"]) # mat["a"]

\* C8: a default-constructed matrix is the identity: get(i, j) is 1 for
\* i = j and 0 otherwise
C8_DefaultIsIdentity ==
    (nsets = 0 /\ ops = <<>>) =>
        \A o \in Objs : \A i \in Idx(n) : \A j \in Idx(n) :
            MGet(mat[o], i, j) = Kronecker(i, j)

\* the matrices just constructed
C8_Witness == nsets = 0 /\ ops = <<>> /\ n = 4

RECURSIVE SumOfProducts(_, _, _, _, _)
\* sum over k in [0, m) of A[i][k] * B[k][j]
SumOfProducts(A, B, i, j, m) ==
    IF m = 1 THEN FMul(A[i][0], B[0][j])
    ELSE FAdd(SumOfProducts(A, B, i, j, m - 1), FMul(A[i][m - 1], B[m - 1][j]))

\* C9: (A * B).get(i, j) is the sum over k of A[i][k] * B[k][j]
C9_StandardProduct ==
    Did("mul") =>
        \A i \in Idx(n) : \A j \in Idx(n) :
            MGet(mat["r"], i, j) = SumOfProducts(mat[Last.x], mat[Last.y], i, j, n)

\* a product of two matrices that do not commute
C9_Witness ==
    /\ Did("mul")
    /\ n = 4
    /\ MatMul(mat["a"], mat["b"]) # MatMul(mat["b"], mat["a"])

\* the last two operations were u = -v and r = v + u
NegatedAndAdded == NOps >= 2 /\ ops[NOps - 1].op = "neg" /\ Last.op = "add"

\* C10 as stated: v + (-v) is the zero vector and M - M the zero matrix
C10_AdditiveInverse ==
    /\ NegatedAndAdded => IsZeroVec(vec["r"])
    /\ (Did("sub") /\ Last.x = Last.y) => IsZeroMat(mat["r"])

\* C10, amended: so it is for vectors and matrices of finite elements
C10_AdditiveInverseFinite ==
    /\ (NegatedAndAdded /\ AllFiniteVec(vec["v"])) => IsZeroVec(vec["r"])
    /\ (Did("sub") /\ Last.x = Last.y /\ AllFinite(mat[Last.x])) => IsZeroMat(mat["r"])

\* a vector that is not zero added to its negation
C10_Witness ==
    /\ NegatedAndAdded
    /\ ~IsZeroVec(vec["v"])
    /\ n = 4

\* C11: a.cross(b) is (a.y*b.z - a.z*b.y, a.z*b.x - a.x*b.z, a.x*b.y - a.y*b.x),
\* and Vec3(1,0,0).cross(Vec3(0,1,0)) == Vec3(0,0,1)
C11_CrossProduct ==
    Did("cross") =>
        LET a == vec[Last.x]
            b == vec[Last.y]
            r == vec["r"]
        IN  /\ VDim(r) = 3
            /\ r[0] = FSub(FMul(a[1], b[2]), FMul(a[2], b[1]))
            /\ r[1] = FSub(FMul(a[2], b[0]), FMul(a[0], b[2]))
            /\ r[2] = FSub(FMul(a[0], b[1]), FMul(a[1], b[0]))
            /\ (a = VecOf(<<F(1), F(0), F(0)>>) /\ b = VecOf(<<F(0), F(1), F(0)>>))
                   => VecEq(r, VecOf(<<F(0), F(0), F(1)>>))

\* the cross product of the unit vectors of X and Y
C11_Witness ==
    /\ Did("cross")
    /\ vec[Last.x] = VecOf(<<F(1), F(0), F(0)>>)
    /\ vec[Last.y] = VecOf(<<F(0), F(1), F(0)>>)

\* the last two operations were v.dot(v) and v.squareLength()
DotThenSquareLength ==
    /\ NOps >= 2
    /\ ops[NOps - 1].op = "dot" /\ ops[NOps - 1].x = ops[NOps - 1].y
    /\ Last.op = "squareLength" /\ Last.x = ops[NOps - 1].x

C13_ConversionRoundTrip ==
    /\ (NOps = 2 /\ ops[1].op = "Vec4" /\ Last.op = "extractVec3" /\ Last.x = "r")
           => vec["r"] = vec[ops[1].x]
    /\ (NOps = 2 /\ ops[1].op = "Vec4" /\ Last.op = "get" /\ Last.x = "r" /\ Last.y = 3)
           => Last.ret = ops[1].y
    /\ (Did("extractVec3") /\ Last.x # "r")
           => /\ VDim(vec["r"]) = 3
              /\ \A i \in Idx(3) : vec["r"][i] = vec[Last.x][i]

\* a Vec3 that is not zero, made a Vec4 and extracted again
C13_Witness ==
    /\ NOps = 2 /\ ops[1].op = "Vec4" /\ Last.op = "extractVec3" /\ Last.x = "r"
    /\ ~IsZeroVec(vec["v"])
    /\ ops[1].y = F(2)

\* C14: Vec4() is (0,0,0,1) and compares unequal to Vec4::ZERO, which is
\* (0,0,0,0); Vec3() is (0,0,0)
C14_DefaultVectors ==
    /\ \A i \in Idx(4) : VGet(Vec4ZERO, i) = F(0)
    /\ (nsets = 0 /\ ops = <<>>) =>
           \A o \in VObjs :
               /\ n = 4 => /\ vec[o] = VecOf(<<F(0), F(0), F(0), F(1)>>)
                            /\ ~IsZeroVec(vec[o])
                            /\ ~VecEq(vec[o], Vec4ZERO)
               /\ n = 3 => vec[o] = VecOf(<<F(0), F(0), F(0)>>)

\* the Vec4 just constructed
C14_Witness == nsets = 0 /\ ops = <<>> /\ \A o \in VObjs : VDim(vec[o]) = 4

\* C17: in the header classes, get(i) with i outside the components returns
\* NaN and set(i, x) with such an i changes no component; get(i) with i
\* inside returns what the constructor or the last set(i, .) stored there
C17_HeaderAccessors ==
    [][/\ \A o \in VObjs : \A i \in -1..n : \A x \in VecVals :
              VecSetOf(o, i, x) =>
                  IF i \in Idx(VDim(vec[o]))
                  THEN /\ VGet(vec'[o], i) = x
                       /\ \A k \in Idx(VDim(vec[o])) \ {i} : VGet(vec'[o], k) = VGet(vec[o], k)
                  ELSE vec' = vec
       /\ \A o \in VObjs : \A i \in -1..n :
              VecGetOf(o, i) =>
                  /\ ~(i \in Idx(VDim(vec[o]))) => Last'.ret = NaN
                  /\ (i \in Idx(VDim(vec[o])) /\ nsets = 0 /\ ops = <<>>)
                         => Last'.ret = VecNew(n)[i]
                  /\ (i \in Idx(VDim(vec[o])) /\ vec[o] = orig.v[o])
                         => Last'.ret = orig.v[o][i]]_vars

\* get(-1) after a set() that stored a component and a set() that found no
\* component to store
C17_Witness ==
    /\ Did("get") /\ Last.x = "v" /\ Last.y = -1 /\ Last.ret = NaN
    /\ nsets = 2
    /\ Cardinality({i \in Idx(n) : vec["v"][i] # VecNew(n)[i]}) = 1

\* C15: data()[row * n + col] is get(row, col) for every row, col of an
\* n x n matrix, after set, transpose and invert; data()[i] is get(i) for
\* every component i of a vector
C15_RowMajorData ==
    /\ Did("data") =>
           /\ DOMAIN Last.ret = 0..(n * n - 1)
           /\ \A row \in Idx(n) : \A col \in Idx(n) :
                  Last.ret[row * n + col] = MGet(mat[Last.x], row, col)
    /\ Did("Vec::data") =>
           /\ DOMAIN Last.ret = 0..(n - 1)
           /\ \A i \in Idx(n) : Last.ret[i] = VGet(vec[Last.x], i)

\* data() of a Mat4 that is not symmetric, after set() and transpose()
C15_Witness ==
    /\ NOps = 2 /\ ops[1].op = "transpose" /\ Last.op = "data"
    /\ n = 4
    /\ nsets > 0
    /\ MatTranspose(mat["a"]) # mat["a"]

\* C16: get and set of Mat3 and Mat4, and get and set of Vec4.cpp, fail
\* their assertion exactly when a row, column or component index lies
\* outside [0, n); a set that failed leaves the matrix or vector as it was,
\* one that did not fail stores the value, and a get that did not fail
\* returns the element
C16_AssertedAccessors ==
    [][/\ \A row \in -1..n : \A column \in -1..n : \A x \in VecVals :
              CallSet("a", row, column, x) =>
                  IF row \in Idx(n) /\ column \in Idx(n)
                  THEN ~Last'.failed /\ mat'["a"][row][column] = x
                  ELSE Last'.failed /\ mat' = mat
       /\ \A row \in -1..n : \A column \in -1..n :
              CallGet("a", row, column) =>
                  IF row \in Idx(n) /\ column \in Idx(n)
                  THEN ~Last'.failed /\ Last'.ret = mat["a"][row][column]
                  ELSE Last'.failed
       /\ \A index \in -1..n : \A x \in VecVals :
              CallVec4Set("v", index, x) =>
                  IF index \in Idx(4)
                  THEN ~Last'.failed /\ vec'["v"][index] = x
                  ELSE Last'.failed /\ vec' = vec
       /\ \A index \in -1..n :
              CallVec4Get("v", index) =>
                  IF index \in Idx(4)
                  THEN ~Last'.failed /\ Last'.ret = vec["v"][index]
                  ELSE Last'.failed]_vars

\* a set inside a Mat3 and then a set one column past its end
C16_Witness ==
    /\ n = 3
    /\ NOps = 2
    /\ ops[1].op = "set" /\ ~ops[1].failed
    /\ Last.op = "set" /\ Last.failed /\ Last.y[1] = 0 /\ Last.y[2] = 3
    /\ mat["a"] # MatNew(3)

\* C20: r = m.extractMat3() has r.get(i, j) == m.get(i, j) for i, j in
\* [0, 3), whatever the fourth row and the fourth column of m hold, and m is
\* as it was
C20_ExtractMat3 ==
    Did("extractMat3") =>
        /\ Dim(mat["r"]) = 3
        /\ \A i \in Idx(3) : \A j \in Idx(3) :
               MGet(mat["r"], i, j) = MGet(mat["a"], i, j)
        /\ \A k \in Idx(4) : \A x \in Vals : \A y \in Vals :
               Mat4ExtractMat3(MSet(MSet(mat["a"], 3, k, F(x)), k, 3, F(y))) = mat["r"]
        /\ NOps = 1 => mat["a"] = orig.m["a"]

\* extractMat3() of a Mat4 that is not symmetric in its first three rows and
\* differs from the identity in its fourth row
C20_Witness ==
    /\ NOps = 1 /\ Last.op = "extractMat3"
    /\ MatTranspose(mat["r"]) # mat["r"]
    /\ \E j \in Idx(3) : mat["a"][3][j] # F(0)

\* the matrices and vectors an operation wrote
Outputs ==
    IF Last.op = "decompose" THEN <<mat[Last.x], mat[Last.y]>>
    ELSE IF Last.op = "invert" THEN <<mat["a"]>>
    ELSE <<[i \in {0} |-> vec["r"]]>>

\* C18: decompose, invert, solveL and solveU of a matrix with a zero pivot
\* (every singular matrix has one) run to completion like any other: the
\* outputs are whole matrices and vectors, and the division by zero shows in
\* them as an element that is not finite
C18_ZeroPivotUndetected ==
    (/\ NOps = 1
     /\ Last.op \in {"decompose", "invert", "solveL", "solveU"}
     /\ AllFinite(orig.m["a"]) /\ AllFiniteVec(orig.v["v"]))
    => /\ \A k \in 1..Len(Outputs) : \A i \in DOMAIN Outputs[k] :
              DOMAIN Outputs[k][i] = Idx(n)
       /\ Last.dz => \E k \in 1..Len(Outputs) : ~AllFinite(Outputs[k])
       /\ (Last.op = "invert" /\ \E i \in Idx(n) : Pivots(orig.m["a"])[i] = F(0)) => Last.dz
       /\ mat["a"] = orig.m["a"] \/ Last.op = "invert"

\* the inversion of a Mat4 whose second pivot is zero
C18_Witness ==
    /\ NOps = 1 /\ Last.op = "invert" /\ Last.dz
    /\ n = 4
    /\ Pivots(orig.m["a"])[0] # F(0)
    /\ Pivots(orig.m["a"])[1] = F(0)
    /\ ~AllFinite(mat["a"])

LowerTriangular(M) == \A i \in DOMAIN M : \A j \in DOMAIN M : i < j => M[i][j] = F(0)

NonZeroDiagonal(M) == \A i \in DOMAIN M : M[i][i] # F(0)

RECURSIVE SumOfTerms(_, _, _, _)
\* the sum over j in J of M[i][j] * x[j]
SumOfTerms(M, x, i, J) ==
    IF J = {} THEN F(0)
    ELSE LET j == CHOOSE k \in J : \A l \in J : k <= l
         IN  FAdd(FMul(M[i][j], x[j]), SumOfTerms(M, x, i, J \ {j}))

\* C19 as stated: for every lower-triangular L with non-zero diagonal and
\* every b, x = L.solveL(b) has L * x == b and
\* x[i] = (b[i] - sum over j < i of L[i][j] * x[j]) / L[i][i]; for every
\* upper-triangular U with non-zero diagonal, x = U.solveU(b) has U * x == b
\* and x[i] = (b[i] - sum over j > i of U[i][j] * x[j]) / U[i][i]
C19_TriangularSolvers ==
    LET M == mat["a"]
        b == vec["v"]
        x == vec["r"]
    IN  /\ (Did("solveL") /\ LowerTriangular(M) /\ NonZeroDiagonal(M)) =>
               /\ VecEq(MatMulVec(M, x), b)
               /\ \A i \in Idx(n) :
                      x[i] = FDiv(FSub(b[i], SumOfTerms(M, x, i, 0..(i - 1))), M[i][i])
        /\ (Did("solveU") /\ UpperTriangular(M) /\ NonZeroDiagonal(M)) =>
               /\ VecEq(MatMulVec(M, x), b)
               /\ \A i \in Idx(n) :
                      x[i] = FDiv(FSub(b[i], SumOfTerms(M, x, i, (i + 1)..(n - 1))), M[i][i])

\* C19, amended: so it is for L, U and b of finite elements and components
C19_TriangularSolversFinite ==
    LET M == mat["a"]
        b == vec["v"]
        x == vec["r"]
    IN  /\ (Did("solveL") /\ LowerTriangular(M) /\ NonZeroDiagonal(M)
                           /\ AllFinite(M) /\ AllFiniteVec(b)) =>
               /\ VecEq(MatMulVec(M, x), b)
               /\ \A i \in Idx(n) :
                      x[i] = FDiv(FSub(b[i], SumOfTerms(M, x, i, 0..(i - 1))), M[i][i])
        /\ (Did("solveU") /\ UpperTriangular(M) /\ NonZeroDiagonal(M)
                           /\ AllFinite(M) /\ AllFiniteVec(b)) =>
               /\ VecEq(MatMulVec(M, x), b)
               /\ \A i \in Idx(n) :
                      x[i] = FDiv(FSub(b[i], SumOfTerms(M, x, i, (i + 1)..(n - 1))), M[i][i])

\* a lower-triangular Mat4 that is not diagonal, solved for a right-hand
\* side other than Vec4()
C19_Witness ==
    /\ Did("solveL")
    /\ n = 4
    /\ LowerTriangular(mat["a"]) /\ NonZeroDiagonal(mat["a"]) /\ AllFinite(mat["a"])
    /\ ~UpperTriangular(mat["a"])
    /\ vec["v"] # Vec4New /\ AllFiniteVec(vec["v"])
    /\ vec["r"] # vec["v"]

\* C21: a.transpose() leaves in a[i][j] what a[j][i] held, for every i, j in
\* [0, n); it swaps each pair of elements off the diagonal exactly once and
\* no element of the diagonal
C21_TransposeSwaps ==
    [][Transpose =>
          /\ \A i \in Idx(n) : \A j \in Idx(n) : mat'["a"][i][j] = mat["a"][j][i]
          /\ \A i \in Idx(n) : mat'["a"][i][i] = mat["a"][i][i]
          /\ mat'["a"] = ApplySwaps(mat["a"], TransposeSwaps(n))
          /\ \A i \in Idx(n) : \A j \in Idx(n) :
                 Cardinality({k \in 1..Len(TransposeSwaps(n)) :
                                 TransposeSwaps(n)[k] \in {<<i, j>>, <<j, i>>}})
                     = IF i = j THEN 0 ELSE 1
          /\ \A o \in Objs \ {"a"} : mat'[o] = mat[o]]_vars

\* a Mat4 that is not symmetric, transposed once
C21_Witness ==
    /\ NOps = 1 /\ Last.op = "transpose"
    /\ n = 4
    /\ mat["a"] # orig.m["a"]
    /\ \E i \in Idx(n) : mat["a"][i][i] # F(1)

\* the identity of Mat3 with its first two rows exchanged: it is its own
\* inverse, and its element [0][0] is zero
RowsExchanged ==
    [Mat3New EXCEPT ![0][0] = F(0), ![0][1] = F(1), ![1][0] = F(1), ![1][1] = F(0)]

\* a.decompose(lo, up) on the matrices M, every divisor noted
Noted(M, lo, up) == DecomposeNoted([m |-> M, dz |-> FALSE, divs |-> <<>>], "a", lo, up)

\* what C22 says of a step a.decompose(lo, up): it divides by zero exactly
\* when upper[i][i] == 0 for some i < n-1, every divisor read from
\* lower[i][i] is 1, and upper[n-1][n-1] is no divisor
DividesByZeroPivotsOnly(lo, up) ==
    LET run == Noted(mat, lo, up)
    IN  /\ run.m = mat'
        /\ run.dz = Last'.dz
        /\ Last'.dz <=> \E i \in 0..(n - 2) : mat'[up][i][i] = F(0)
        /\ \A k \in 1..Len(run.divs) :
               /\ run.divs[k][1] = "lower" => run.divs[k][3] = F(1)
               /\ run.divs[k][1] = "upper" => run.divs[k][2] < n - 1
        /\ mat["a"][0][0] = F(0) => Last'.dz

\* a matrix that is not singular and has matrix[0][0] == 0: decompose and
\* invert divide by zero, and the inverse has elements that are not finite
NonSingularNotDecomposed ==
    /\ MatEq(Mat3Mul(RowsExchanged, RowsExchanged), Mat3New)
    /\ Noted([o \in Objs |-> IF o = "a" THEN RowsExchanged ELSE Mat3New], "lower", "upper").dz
    /\ Invert(RowsExchanged).dz
    /\ ~AllFinite(Invert(RowsExchanged).m)

\* the step appended to the trace a call of op with the operands x and y
StepOf(op, x, y) ==
    /\ Len(ops') = Len(ops) + 1
    /\ ops'[Len(ops')].op = op
    /\ ops'[Len(ops')].x = x
    /\ ops'[Len(ops')].y = y

\* C22 as stated: with outputs distinct from the receiver, decompose divides
\* by zero if and only if upper[i][i] == 0 for some i < n-1, every divisor
\* lower[i][i] it uses is 1 and upper[n-1][n-1] is never a divisor; some
\* matrices that are not singular are therefore not decomposed or inverted
C22_ZeroPivotDivision ==
    [][\A lo \in Objs \ {"a"} : \A up \in Objs \ {"a"} :
           (StepOf("decompose", lo, up) /\ DecomposeA(lo, up))
               => DividesByZeroPivotsOnly(lo, up) /\ NonSingularNotDecomposed]_vars

\* C22, amended: so it is with outputs distinct from the receiver and from
\* each other
C22_ZeroPivotDivisionDistinct ==
    [][\A lo \in Objs \ {"a"} : \A up \in Objs \ {"a", lo} :
           (StepOf("decompose", lo, up) /\ DecomposeA(lo, up))
               => DividesByZeroPivotsOnly(lo, up) /\ NonSingularNotDecomposed]_vars

\* a decomposition of a Mat4 into two matrices that divided by the zero it
\* had computed for upper[1][1]
C22_Witness ==
    /\ NOps = 1 /\ Last.op = "decompose" /\ Last.x = "lower" /\ Last.y = "upper"
    /\ Last.dz
    /\ n = 4
    /\ orig.m["a"][1][1] # F(0)
    /\ mat["upper"][0][0] # F(0)
    /\ mat["upper"][1][1] = F(0)

\* the matrices other than those named in S are as they were
MatsKeptBut(S) == \A o \in Objs \ S : mat'[o] = mat[o]

\* the vectors other than those named in S are as they were
VecsKeptBut(S) == \A o \in VObjs \ S : vec'[o] = vec[o]

\* what a step may change, the receiver of decompose left aside: the object
\* the caller assigns the returned value to, the outputs of decompose, the
\* receiver of transpose, invert, set and +=
FrameOfStep ==
    LET e == ops'[Len(ops')]
    IN  /\ (nsets' = nsets + 1)
               => \/ MatsKeptBut({"a"}) /\ VecsKeptBut({})
                  \/ MatsKeptBut({}) /\ VecsKeptBut({"v"})
        /\ (Len(ops') = Len(ops) + 1) =>
               /\ e.op \in {"mul", "sub", "extractMat3"}
                      => MatsKeptBut({"r"}) /\ VecsKeptBut({})
               /\ e.op \in {"mulvec", "solveL", "solveU", "add", "cross", "extractVec3"}
                      => MatsKeptBut({}) /\ VecsKeptBut({"r"})
               /\ e.op = "neg" => MatsKeptBut({}) /\ VecsKeptBut({"u"})
               /\ e.op \in {"==", "data", "dot", "get"}
                      => MatsKeptBut({}) /\ VecsKeptBut({})
               /\ e.op = "decompose" => MatsKeptBut({e.x, e.y}) /\ VecsKeptBut({})
               /\ e.op \in {"transpose", "invert"}
                      => MatsKeptBut({"a"}) /\ VecsKeptBut({})
               /\ e.op = "+=" => MatsKeptBut({}) /\ VecsKeptBut({"v"})

OtherMats(d) == {[i \in Idx(d) |-> [j \in Idx(d) |-> x]] : x \in {NaN, F(5)}}

OtherVecs(d) == {[i \in Idx(d) |-> x] : x \in {NaN, F(5)}}

\* C24: no default value leaks into a result: the matrix returned by
\* operator *, + and - and the vector returned by matrix * vector, solveL and
\* solveU are what the same loops leave in a local object declared with any
\* other content, so each element (the W of a Vec4 among them) is written
\* before it is read or returned and the result depends on the operands only
C24_NoDefaultLeaks ==
    [][/\ StepOf("mul", "a", "b") =>
              \A R \in OtherMats(n) : mat'["r"] = MatMulInto(mat["a"], mat["b"], R)
       /\ StepOf("sum", "a", "b") =>
              \A R \in OtherMats(n) : mat'["r"] = MatAddInto(mat["a"], mat["b"], R)
       /\ StepOf("sub", "a", "b") =>
              \A R \in OtherMats(n) : mat'["r"] = MatSubInto(mat["a"], mat["b"], R)
       /\ StepOf("mulvec", "a", "v") =>
              \A r \in OtherVecs(n) : vec'["r"] = MatMulVecInto(mat["a"], vec["v"], r)
       /\ StepOf("solveL", "a", "v") =>
              \A r \in OtherVecs(n) : vec'["r"] = SolveLInto(mat["a"], vec["v"], r).x
       /\ StepOf("solveU", "a", "v") =>
              \A r \in OtherVecs(n) : vec'["r"] = SolveUInto(mat["a"], vec["v"], r).x]_vars

\* a Mat4 applied to a Vec4 gave a vector whose W is not the default 1, after
\* a sum of matrices whose diagonal is not the default one either
C24_Witness ==
    /\ n = 4 /\ NOps = 2
    /\ ops[1].op = "sum" /\ mat["r"][0][0] # F(1)
    /\ Last.op = "mulvec" /\ vec["r"][3] # F(1)

\* The values the triangle a solver is said not to read is filled with
Fillers == {NaN, PInf, F(5)}

\* M with every element above the diagonal replaced: by x, or (x = F(0)
\* standing for it) by the element opposite to it
AboveReplaced(M, x) ==
    [i \in Idx(Dim(M)) |-> [j \in Idx(Dim(M)) |->
        IF j > i THEN (IF x = F(0) THEN M[j][i] ELSE x) ELSE M[i][j]]]

\* M with every element below the diagonal replaced in the same way
BelowReplaced(M, x) ==
    [i \in Idx(Dim(M)) |-> [j \in Idx(Dim(M)) |->
        IF j < i THEN (IF x = F(0) THEN M[j][i] ELSE x) ELSE M[i][j]]]

\* C25: solveL reads the diagonal and the elements below it only, solveU the
\* diagonal and the elements above it only: a matrix that agrees with the
\* receiver on that triangle gives the same solution (and meets the same zero
\* divisors) for the same right-hand side, whatever its other triangle holds;
\* the receiver need not be triangular
C25_SolversReadOneTriangle ==
    [][/\ StepOf("solveL", "a", "v") =>
              \A x \in Fillers \cup {F(0)} :
                  LET res == SolveL(AboveReplaced(mat["a"], x), vec["v"])
                  IN  res.x = vec'["r"] /\ res.dz = ops'[Len(ops')].dz
       /\ StepOf("solveU", "a", "v") =>
              \A x \in Fillers \cup {F(0)} :
                  LET res == SolveU(BelowReplaced(mat["a"], x), vec["v"])
                  IN  res.x = vec'["r"] /\ res.dz = ops'[Len(ops')].dz]_vars

\* solveL then solveU of a matrix with a non-zero element on either side of
\* the diagonal, neither dividing by zero
C25_Witness ==
    /\ NOps = 2 /\ ops[1].op = "solveL" /\ Last.op = "solveU"
    /\ ~ops[1].dz /\ ~Last.dz
    /\ \E i \in Idx(n) : \E j \in Idx(n) : i < j /\ mat["a"][i][j] # F(0) /\ mat["a"][j][i] # F(0)

(* ------------------------- the indices used --------------------------- *)

\* A use of element (i, j) of a matrix of dimension d, through get, set or
\* the array matrix; a use of component k of a vector of dimension d, through
\* get or set (or of element k of an array of d vectors)
MAcc(d, i, j) == <<"m", d, i, j>>

VAcc(d, k) == <<"v", d, k>>

\* The indices used by operator *(const Mat&), in program order
MatMulUsed(d) ==
    For(0, d, LAMBDA s, i:
        For(0, d, LAMBDA t, j:
            Append(For(0, d, LAMBDA u, k: u \o <<MAcc(d, i, k), MAcc(d, k, j)>>, t),
                   MAcc(d, i, j)), s), <<>>)

\* The indices used by operator *(const Vec&)
MatMulVecUsed(d) ==
    For(0, d, LAMBDA s, i:
        Append(For(0, d, LAMBDA u, k: u \o <<MAcc(d, i, k), VAcc(d, k)>>, s),
               VAcc(d, i)), <<>>)

\* The indices used by operator + and operator -: matrix[i][j], get(i, j) of
\* the argument, set(i, j) of the result
MatSubUsed(d) ==
    For(0, d, LAMBDA s, i:
        For(0, d, LAMBDA t, j:
            t \o <<MAcc(d, i, j), MAcc(d, i, j), MAcc(d, i, j)>>, s), <<>>)

\* The indices used by operator == when no pair of elements differs (it
\* returns inside the loops otherwise)
MatEqUsed(d) ==
    For(0, d, LAMBDA s, i:
        For(0, d, LAMBDA t, j: t \o <<MAcc(d, i, j), MAcc(d, i, j)>>, s), <<>>)

\* The indices used by transpose()
TransposeUsed(d) ==
    For(0, d - 1, LAMBDA s, i:
        For(i + 1, d, LAMBDA t, j: t \o <<MAcc(d, j, i), MAcc(d, i, j)>>, s), <<>>)

\* The indices used by decompose
DecomposeUsed(d) ==
    LET clear == For(0, d, LAMBDA s, i:
                     For(i, d, LAMBDA t, j: t \o <<MAcc(d, i, j), MAcc(d, i, j)>>, s), <<>>)
    IN  For(0, d, LAMBDA s, i:
            LET row == For(i, d, LAMBDA t, j:
                           For(0, i, LAMBDA u, k:
                                   u \o <<MAcc(d, i, j), MAcc(d, i, k), MAcc(d, k, j),
                                          MAcc(d, i, j)>>,
                               t \o <<MAcc(d, i, j), MAcc(d, i, j)>>)
                           \o <<MAcc(d, i, j), MAcc(d, i, i), MAcc(d, i, j)>>, s)
            IN  For(i + 1, d, LAMBDA t, j:
                    For(0, i, LAMBDA u, k:
                            u \o <<MAcc(d, j, i), MAcc(d, j, k), MAcc(d, k, i),
                                   MAcc(d, j, i)>>,
                        t \o <<MAcc(d, j, i), MAcc(d, j, i)>>)
                    \o <<MAcc(d, j, i), MAcc(d, i, i), MAcc(d, j, i)>>, row),
            clear)

\* The indices used by solveL
SolveLUsed(d) ==
    For(0, d, LAMBDA s, i:
        For(0, i, LAMBDA u, j:
                u \o <<VAcc(d, i), MAcc(d, i, j), VAcc(d, j), VAcc(d, i)>>,
            s \o <<VAcc(d, i), VAcc(d, i)>>)
        \o <<VAcc(d, i), MAcc(d, i, i), VAcc(d, i)>>, <<>>)

\* the indices of a backward substitution whose inner loop starts at column n
SolveUUsed_StartsAtN(d) ==
    ForDown(d - 1, -1, LAMBDA s, i:
        ForDown(d, i, LAMBDA u, j:
                u \o <<VAcc(d, i), MAcc(d, i, j), VAcc(d, j), VAcc(d, i)>>,
            s \o <<VAcc(d, i), VAcc(d, i)>>)
        \o <<VAcc(d, i), MAcc(d, i, i), VAcc(d, i)>>, <<>>)

\* The indices used by solveU
SolveUUsed(d) ==
    ForDown(d - 1, -1, LAMBDA s, i:
        ForDown(d - 1, i, LAMBDA u, j:
                u \o <<VAcc(d, i), MAcc(d, i, j), VAcc(d, j), VAcc(d, i)>>,
            s \o <<VAcc(d, i), VAcc(d, i)>>)
        \o <<VAcc(d, i), MAcc(d, i, i), VAcc(d, i)>>, <<>>)

\* The indices used by invert(): decompose, the zero fill, then for each
\* column identity[i], solveL, solveU, x.get(j) and matrix[j][i]
InvertUsed(d) ==
    LET fill == For(0, d, LAMBDA s, i:
                    For(0, d, LAMBDA t, j: Append(t, MAcc(d, i, j)), s), DecomposeUsed(d))
    IN  For(0, d, LAMBDA s, i:
            For(0, d, LAMBDA t, j: t \o <<VAcc(d, j), MAcc(d, j, i)>>,
                s \o <<VAcc(d, i)>> \o SolveLUsed(d) \o SolveUUsed(d)), fill)

\* The indices used by Mat4::extractMat3(): matrix[i][j] of the Mat4,
\* set(i, j) of the Mat3
ExtractMat3Used ==
    For(0, 3, LAMBDA s, i:
        For(0, 3, LAMBDA t, j: t \o <<MAcc(4, i, j), MAcc(3, i, j)>>, s), <<>>)

\* The indices used by the operation recorded as op, on objects of dimension d
UsedBy(op, d) ==
    CASE op = "mul" -> MatMulUsed(d)
      [] op = "mulvec" -> MatMulVecUsed(d)
      [] op \in {"sum", "sub"} -> MatSubUsed(d)
      [] op = "==" -> MatEqUsed(d)
      [] op = "transpose" -> TransposeUsed(d)
      [] op = "decompose" -> DecomposeUsed(d)
      [] op = "invert" -> InvertUsed(d)
      [] op = "solveL" -> SolveLUsed(d)
      [] op = "solveU" -> SolveUUsed(d)
      [] op = "extractMat3" -> ExtractMat3Used
      [] OTHER -> <<>>

\* the use passes the assertions of get and set of the matrix, or names a
\* component of the vector: get does not return its NaN sentinel for it (the
\* vector probed holds numbers only) and set stores
InRange(acc) ==
    IF acc[1] = "m"
    THEN IF acc[2] = 3 THEN Mat3Assert(acc[3], acc[4]) ELSE Mat4Assert(acc[3], acc[4])
    ELSE /\ VGet(VecNew(acc[2]), acc[3]) # NaN
         /\ VSet(VecNew(acc[2]), acc[3], F(5)) # VecNew(acc[2])
         /\ acc[2] = 4 => Vec4Assert(acc[3])

\* C26: during every call of the matrix operators (*, +, -, ==, matrix *
\* vector), transpose, decompose, invert, solveL, solveU and extractMat3 every
\* row, column and component index used lies in [0, n): no assertion of get
\* or set fires and no get of a vector returns the NaN sentinel
C26_IndicesInRange ==
    [][Len(ops') = Len(ops) + 1 =>
           \A used \in {UsedBy(ops'[Len(ops')].op, n)} :
               /\ Len(used) > 0
               /\ \A k \in 1..Len(used) : InRange(used[k])]_vars

\* a Mat4 was inverted without a zero divisor after its Mat3 was extracted
C26_Witness ==
    /\ n = 4 /\ NOps = 2
    /\ ops[1].op = "extractMat3"
    /\ Last.op = "invert" /\ ~Last.dz
    /\ mat["a"] # orig.m["a"]

====
